---- MODULE Spec2Model ----
(***************************************************************************)
(* Model of sqlite/run_sql.py: main() resolves the command-line paths into *)
(* a sorted list of .sql files (collect_sql_files) and runs every script   *)
(* on one sqlite3 connection (execute_sql_files).                          *)
(*                                                                         *)
(* A path is the sequence of its components relative to the working       *)
(* directory; a component is the sequence of its character codes, so that  *)
(* pathlib's ordering (component by component) and the ordering of the     *)
(* path strings (character by character, '/' = 47 between components) are  *)
(* two different computations.                                             *)
(***************************************************************************)
EXTENDS Integers, Sequences, FiniteSets, TLC

\* ------------------------------------------------------------------ bounds
MaxPaths == 2
MaxStmts == 2

\* ------------------------------------------------------- names and paths
\* ".sql", the extension of run_sql.py:35 and the tail of the pattern of :38
SqlExt == <<46, 115, 113, 108>>
\* the path separator, as a one-character string
Sep == <<47>>

NameA == <<97>>
NameASql == <<97>> \o SqlExt
NameBSql == <<98>> \o SqlExt
NameDotSql == SqlExt

Root == <<>>
PathA == <<NameA>>
PathASql == <<NameASql>>
PathABSql == <<NameA, NameBSql>>
PathADotSql == <<NameA, NameDotSql>>

\* the paths a file or directory may exist at, besides the working directory
Universe == {PathA, PathASql, PathABSql, PathADotSql}
ArgPaths == Universe \cup {Root}

Kinds == {"none", "file", "dir"}
StmtKinds == {"W", "BAD", "BEGIN"}

VARIABLES
    fs,            \* path -> "none" | "file" | "dir"
    content,       \* path -> [readable, stmts]: can the file be read, its statements
    db_path_str,   \* os.getenv("SQLITE_DB_PATH"): "absent" | "empty" | "set"
    paths,         \* args.paths
    pc,            \* position of main
    idx,           \* collect_sql_files: paths consumed so far
    sql_files,     \* the list built by collect_sql_files, then executed
    scanned,       \* collect_sql_files was entered
    mkdirDone,     \* db_path.parent.mkdir ran
    conn,          \* "none" | "open" | "closed"
    connCount,     \* number of sqlite3.connect calls
    inTxn,         \* conn.in_transaction
    pending,       \* effects of the open transaction
    committed,     \* effects in the database file
    pos,           \* execute_sql_files: scripts consumed so far
    opened,        \* positions whose file was opened for reading
    executed,      \* paths handed to conn.executescript
    failedAt,      \* position of the script that raised, 0 if none
    failStmt,      \* index of the statement that raised, 0 if open() raised
    output,        \* lines printed
    exitCode,      \* -1 while running
    traceback      \* the process died of an unhandled exception

vars == <<fs, content, db_path_str, paths, pc, idx, sql_files, scanned,
          mkdirDone, conn, connCount, inTxn, pending, committed, pos, opened,
          executed, failedAt, failStmt, output, exitCode, traceback>>

\* ------------------------------------------------------------- orderings
\* str.__lt__: code point by code point, a proper prefix is smaller
StrLt(s, t) ==
    \E i \in 1..Len(t) :
        /\ \A j \in 1..(i - 1) : j <= Len(s) /\ s[j] = t[j]
        /\ (i > Len(s) \/ s[i] < t[i])

\* PurePath.__lt__: the component lists are compared, component by component
PathLt(p, q) ==
    \E i \in 1..Len(q) :
        /\ \A j \in 1..(i - 1) : j <= Len(p) /\ p[j] = q[j]
        /\ (i > Len(p) \/ StrLt(p[i], q[i]))

\* str(path): the components joined by the separator
RECURSIVE PathStr(_)
PathStr(p) ==
    IF Len(p) = 0 THEN <<>>
    ELSE IF Len(p) = 1 THEN p[1]
    ELSE p[1] \o Sep \o PathStr(Tail(p))

\* the comparison the wrong way round: a descending sort
RECURSIVE InsertDescending(_, _)
InsertDescending(x, s) ==
    IF s = <<>> THEN <<x>>
    ELSE IF PathLt(s[1], x) THEN <<x>> \o s
    ELSE <<s[1]>> \o InsertDescending(x, Tail(s))

\* list.insert of insertion sort: x goes behind every element not above it
RECURSIVE Insert(_, _)
Insert(x, s) ==
    IF s = <<>> THEN <<x>>
    ELSE IF PathLt(x, s[1]) THEN <<x>> \o s
    ELSE <<s[1]>> \o Insert(x, Tail(s))

RECURSIVE InsertionSort(_, _)
InsertionSort(acc, s) ==
    IF s = <<>> THEN acc ELSE InsertionSort(Insert(s[1], acc), Tail(s))

\* sorted(iterable of Path): stable, ascending by PurePath.__lt__
Sorted(s) == InsertionSort(<<>>, s)

\* ------------------------------------------------------------ filesystem
Parent(p) == SubSeq(p, 1, Len(p) - 1)
Name(p) == p[Len(p)]

\* every existing entry lies in a directory
Consistent(f) ==
    /\ f[Root] = "dir"
    /\ \A p \in Universe : f[p] # "none" => f[Parent(p)] = "dir"

IsFile(p) == fs[p] = "file"
IsDir(p) == fs[p] = "dir"

\* PurePath.suffix: from the last dot of the name on, unless that dot is the
\* first or the last character of the name
Suffix(p) ==
    IF p = Root THEN <<>>
    ELSE LET n == Name(p)
             dots == {i \in 1..Len(n) : n[i] = 46}
             last == IF dots = {} THEN 0
                     ELSE CHOOSE i \in dots : \A j \in dots : j <= i
         IN  IF last > 1 /\ last < Len(n) THEN SubSeq(n, last, Len(n))
             ELSE <<>>

\* fnmatch of a name against "*.sql": any characters, then ".sql"
GlobMatch(n) ==
    /\ Len(n) >= Len(SqlExt)
    /\ SubSeq(n, Len(n) - Len(SqlExt) + 1, Len(n)) = SqlExt

IsDescendant(p, d) == Len(p) > Len(d) /\ SubSeq(p, 1, Len(d)) = d

\* path.rglob("*.sql"): the existing entries below path whose name matches
Rglob(d) ==
    {p \in Universe : IsDescendant(p, d) /\ fs[p] # "none" /\ GlobMatch(Name(p))}

\* (p for p in path.rglob("*.sql") if p.is_file())
RglobFiles(d) == {p \in Rglob(d) : IsFile(p)}

\* the orders in which a directory walk may yield the entries of S
Enumerations(S) ==
    {e \in [1..Cardinality(S) -> S] : \A x \in S : \E i \in DOMAIN e : e[i] = x}

\* path.is_file() and path.suffix == ".sql"
TakesFile(p) == IsFile(p) /\ Suffix(p) = SqlExt

\* what one pass of the loop of collect_sql_files appends for path, when the
\* directory walk yields its entries in the order walk
Contribution(p, walk) ==
    IF TakesFile(p) THEN <<p>>
    ELSE IF IsDir(p) THEN Sorted(walk)
    ELSE <<>>

\* the return value forgot the final sort
ResolvedNoSort(acc) == acc

RECURSIVE DropRepeats(_)
DropRepeats(s) ==
    IF Len(s) <= 1 THEN s
    ELSE IF s[1] = s[2] THEN DropRepeats(Tail(s))
    ELSE <<s[1]>> \o DropRepeats(Tail(s))

\* the return value with repeated paths removed
ResolvedDedup(acc) == DropRepeats(Sorted(acc))

\* return sorted(sql_files)
Resolved(acc) == Sorted(acc)

\* collect_sql_files as a function of its argument
RECURSIVE Gather(_)
Gather(ps) ==
    IF ps = <<>> THEN <<>>
    ELSE Contribution(ps[1], CHOOSE e \in Enumerations(RglobFiles(ps[1])) : TRUE)
         \o Gather(Tail(ps))

collect_sql_files(ps) == Resolved(Gather(ps))

\* ------------------------------------------------------------- execution
Msg(m, p) == [msg |-> m, arg |-> p]

\* "not db_path_str" that only tests for None
FalsyNoneOnly(v) == v = "absent"

\* not db_path_str: None and the empty string are both false
Falsy(v) == v \in {"absent", "empty"}

\* an emptiness test that never holds
IsEmptyListNever(l) == FALSE

\* not sql_files
IsEmptyList(l) == l = <<>>

\* the loop walks the list backwards
ScriptAtReversed(i) == sql_files[Len(sql_files) - i + 1]

\* for sql_file in sql_files: the i-th script of the loop
ScriptAt(i) == sql_files[i]

\* one statement of a script on the connection state c, as sqlite runs it for
\* executescript: no implicit BEGIN, so a write outside a transaction is
\* committed at once; BEGIN inside a transaction is an error
ExecStmt(c, kind, eff) ==
    IF c.fail # 0 THEN c
    ELSE IF kind = "BAD" THEN [c EXCEPT !.fail = eff[2]]
    ELSE IF kind = "BEGIN"
         THEN IF c.txn THEN [c EXCEPT !.fail = eff[2]]
              ELSE [c EXCEPT !.txn = TRUE]
    ELSE IF c.txn THEN [c EXCEPT !.pend = Append(c.pend, eff)]
    ELSE [c EXCEPT !.comm = Append(c.comm, eff)]

RECURSIVE RunStmts(_, _, _, _)
RunStmts(c, stmts, p, j) ==
    IF j > Len(stmts) THEN c
    ELSE RunStmts(ExecStmt(c, stmts[j], <<p, j>>), stmts, p, j + 1)

\* conn.executescript(text) for the script at position p: a pending
\* transaction is committed first, then the statements run until one raises
ExecuteScript(stmts, p) ==
    RunStmts([txn |-> FALSE, pend |-> <<>>, comm |-> committed \o pending,
              fail |-> 0], stmts, p, 1)

\* the exception is swallowed and the loop goes on
AfterRaiseContinue(p) == [pc |-> "loop", pos |-> p]

\* an exception raised in the loop body leaves the loop: nothing catches it
AfterRaise(p) == [pc |-> "with_exit", pos |-> p - 1]

\* a rollback that wipes the database
RollbackAll(comm, pend) == <<>>

\* Connection.__exit__ with an exception: rollback of the open transaction
Rollback(comm, pend) == comm

\* Connection.__exit__ without an exception: commit of the open transaction
Commit(comm, pend) == comm \o pend

NoOutput == <<>>

TypeOK ==
    /\ pc \in {"start", "check", "call_collect", "collect", "call_exec",
               "loop", "with_exit", "after_with", "propagate", "main_ret",
               "exited"}
    /\ conn \in {"none", "open", "closed"}
    /\ db_path_str \in {"unread", "absent", "empty", "set"}
    /\ exitCode \in {-1, 0, 1}

\* ------------------------------------------------------------------ Init
Scripts == UNION {[1..n -> StmtKinds] : n \in 0..MaxStmts}
Unreadable == [readable |-> FALSE, stmts |-> <<>>]
Script(stmts) == [readable |-> TRUE, stmts |-> stmts]
Contents == {Script(t) : t \in Scripts} \cup {Unreadable}
ArgLists == UNION {[1..n -> ArgPaths] : n \in 1..MaxPaths}

InitRun ==
    /\ db_path_str = "unread"
    /\ pc = "start"
    /\ idx = 0
    /\ sql_files = <<>>
    /\ scanned = FALSE
    /\ mkdirDone = FALSE
    /\ conn = "none"
    /\ connCount = 0
    /\ inTxn = FALSE
    /\ pending = <<>>
    /\ committed = <<>>
    /\ pos = 0
    /\ opened = <<>>
    /\ executed = <<>>
    /\ failedAt = 0
    /\ failStmt = 0
    /\ output = NoOutput
    /\ exitCode = -1
    /\ traceback = FALSE

\* any tree, any arguments; all files hold the same script, which is a
\* write, a write followed by a bad statement, or cannot be read
Init ==
    /\ fs \in {f \in [ArgPaths -> Kinds] : Consistent(f)}
    /\ content \in {[p \in ArgPaths |-> c] :
                       c \in {Script(<<"W">>), Script(<<"W", "BAD">>), Unreadable}}
    /\ paths \in ArgLists
    /\ InitRun

\* one tree with three scripts, which the resolver orders a/.sql, a/b.sql,
\* a.sql; a few argument lists (giving lists of 0, 1, 2, 3 and 5 scripts); the
\* first script is a write, alone or in a transaction it leaves open, the two
\* others hold anything
ExecTree ==
    [p \in ArgPaths |->
        IF p \in {Root, PathA} THEN "dir" ELSE "file"]

ExecArgLists ==
    {<<Root>>, <<PathASql>>, <<PathADotSql>>, <<Root, PathA>>,
     <<PathASql, PathASql>>}

FirstScripts == {Script(<<"W">>), Script(<<"BEGIN", "W">>)}

ExecContent(c1, c2, c3) ==
    [p \in ArgPaths |->
        IF p = PathADotSql THEN c1
        ELSE IF p = PathABSql THEN c2
        ELSE IF p = PathASql THEN c3
        ELSE Script(<<>>)]

InitExec ==
    /\ fs = ExecTree
    /\ content \in {ExecContent(c1, c2, c3) :
                       c1 \in FirstScripts, c2 \in Contents, c3 \in Contents}
    /\ paths \in ExecArgLists
    /\ InitRun

\* --------------------------------------------------------------- actions
\* main, lines 67-72: load the environment file if it exists, read the value
ReadConfig ==
    /\ pc = "start"
    /\ \E exists \in BOOLEAN, v \in {"absent", "empty", "set"} :
        /\ output' = IF exists THEN output
                     ELSE Append(output, Msg("warn_env", Root))
        /\ db_path_str' = v
    /\ pc' = "check"
    /\ UNCHANGED <<fs, content, paths, idx, sql_files, scanned, mkdirDone,
                   conn, connCount, inTxn, pending, committed, pos, opened,
                   executed, failedAt, failStmt, exitCode, traceback>>

\* main, lines 73-75
ConfigMissing ==
    /\ pc = "check"
    /\ Falsy(db_path_str)
    /\ output' = Append(output, Msg("err_SQLITE_DB_PATH", Root))
    /\ exitCode' = 1
    /\ pc' = "exited"
    /\ UNCHANGED <<fs, content, db_path_str, paths, idx, sql_files, scanned,
                   mkdirDone, conn, connCount, inTxn, pending, committed, pos,
                   opened, executed, failedAt, failStmt, traceback>>

\* main, lines 77-78
MakeDbDir ==
    /\ pc = "check"
    /\ ~Falsy(db_path_str)
    /\ mkdirDone' = TRUE
    /\ pc' = "call_collect"
    /\ UNCHANGED <<fs, content, db_path_str, paths, idx, sql_files, scanned,
                   conn, connCount, inTxn, pending, committed, pos, opened,
                   executed, failedAt, failStmt, output, exitCode, traceback>>

\* collect_sql_files, lines 32-33
CollectEnter ==
    /\ pc = "call_collect"
    /\ scanned' = TRUE
    /\ sql_files' = <<>>
    /\ idx' = 0
    /\ pc' = "collect"
    /\ UNCHANGED <<fs, content, db_path_str, paths, mkdirDone, conn,
                   connCount, inTxn, pending, committed, pos, opened, executed,
                   failedAt, failStmt, output, exitCode, traceback>>

\* collect_sql_files, lines 34-38: one pass of the loop
CollectStep ==
    /\ pc = "collect"
    /\ idx < Len(paths)
    /\ \E walk \in Enumerations(RglobFiles(paths[idx + 1])) :
        sql_files' = sql_files \o Contribution(paths[idx + 1], walk)
    /\ idx' = idx + 1
    /\ UNCHANGED <<fs, content, db_path_str, paths, pc, scanned, mkdirDone,
                   conn, connCount, inTxn, pending, committed, pos, opened,
                   executed, failedAt, failStmt, output, exitCode, traceback>>

\* collect_sql_files, line 39
CollectReturn ==
    /\ pc = "collect"
    /\ idx = Len(paths)
    /\ sql_files' = Resolved(sql_files)
    /\ pc' = "call_exec"
    /\ UNCHANGED <<fs, content, db_path_str, paths, idx, scanned, mkdirDone,
                   conn, connCount, inTxn, pending, committed, pos, opened,
                   executed, failedAt, failStmt, output, exitCode, traceback>>

\* execute_sql_files, lines 42-44
ExecEmpty ==
    /\ pc = "call_exec"
    /\ IsEmptyList(sql_files)
    /\ output' = Append(output, Msg("no_files", Root))
    /\ pc' = "main_ret"
    /\ UNCHANGED <<fs, content, db_path_str, paths, idx, sql_files, scanned,
                   mkdirDone, conn, connCount, inTxn, pending, committed, pos,
                   opened, executed, failedAt, failStmt, exitCode, traceback>>

\* execute_sql_files, lines 46-47
ExecConnect ==
    /\ pc = "call_exec"
    /\ ~IsEmptyList(sql_files)
    /\ output' = Append(output, Msg("connecting", Root))
    /\ conn' = "open"
    /\ connCount' = connCount + 1
    /\ pos' = 0
    /\ pc' = "loop"
    /\ UNCHANGED <<fs, content, db_path_str, paths, idx, sql_files, scanned,
                   mkdirDone, inTxn, pending, committed, opened, executed,
                   failedAt, failStmt, exitCode, traceback>>

\* execute_sql_files, lines 48-50: open() or read() raises
ExecOpenFails ==
    /\ pc = "loop"
    /\ pos < Len(sql_files)
    /\ ~content[ScriptAt(pos + 1)].readable
    /\ output' = Append(output, Msg("executing", ScriptAt(pos + 1)))
    /\ opened' = Append(opened, pos + 1)
    /\ failedAt' = pos + 1
    /\ failStmt' = 0
    /\ pc' = AfterRaise(pos + 1).pc
    /\ pos' = AfterRaise(pos + 1).pos
    /\ UNCHANGED <<fs, content, db_path_str, paths, idx, sql_files, scanned,
                   mkdirDone, conn, connCount, inTxn, pending, committed,
                   executed, exitCode, traceback>>

\* execute_sql_files, lines 48-51: the script runs to its end
ExecScriptOk ==
    /\ pc = "loop"
    /\ pos < Len(sql_files)
    /\ content[ScriptAt(pos + 1)].readable
    /\ LET c == ExecuteScript(content[ScriptAt(pos + 1)].stmts, pos + 1)
       IN  /\ c.fail = 0
           /\ inTxn' = c.txn
           /\ pending' = c.pend
           /\ committed' = c.comm
    /\ output' = Append(output, Msg("executing", ScriptAt(pos + 1)))
    /\ opened' = Append(opened, pos + 1)
    /\ executed' = Append(executed, ScriptAt(pos + 1))
    /\ pos' = pos + 1
    /\ UNCHANGED <<fs, content, db_path_str, paths, pc, idx, sql_files,
                   scanned, mkdirDone, conn, connCount, failedAt, failStmt,
                   exitCode, traceback>>

\* execute_sql_files, lines 48-51: a statement of the script raises
ExecScriptFails ==
    /\ pc = "loop"
    /\ pos < Len(sql_files)
    /\ content[ScriptAt(pos + 1)].readable
    /\ LET c == ExecuteScript(content[ScriptAt(pos + 1)].stmts, pos + 1)
       IN  /\ c.fail # 0
           /\ inTxn' = c.txn
           /\ pending' = c.pend
           /\ committed' = c.comm
           /\ failStmt' = c.fail
    /\ output' = Append(output, Msg("executing", ScriptAt(pos + 1)))
    /\ opened' = Append(opened, pos + 1)
    /\ executed' = Append(executed, ScriptAt(pos + 1))
    /\ failedAt' = pos + 1
    /\ pc' = AfterRaise(pos + 1).pc
    /\ pos' = AfterRaise(pos + 1).pos
    /\ UNCHANGED <<fs, content, db_path_str, paths, idx, sql_files, scanned,
                   mkdirDone, conn, connCount, exitCode, traceback>>

\* line 47, leaving the with block normally: Connection.__exit__ commits and
\* leaves the connection open
ConnExitOk ==
    /\ pc = "loop"
    /\ pos = Len(sql_files)
    /\ committed' = Commit(committed, pending)
    /\ pending' = <<>>
    /\ inTxn' = FALSE
    /\ pc' = "after_with"
    /\ UNCHANGED <<fs, content, db_path_str, paths, idx, sql_files, scanned,
                   mkdirDone, conn, connCount, pos, opened, executed, failedAt,
                   failStmt, output, exitCode, traceback>>

\* line 47, leaving the with block by an exception: Connection.__exit__ rolls
\* back, leaves the connection open and lets the exception through
ConnExitRaise ==
    /\ pc = "with_exit"
    /\ committed' = Rollback(committed, pending)
    /\ pending' = <<>>
    /\ inTxn' = FALSE
    /\ pc' = "propagate"
    /\ UNCHANGED <<fs, content, db_path_str, paths, idx, sql_files, scanned,
                   mkdirDone, conn, connCount, pos, opened, executed, failedAt,
                   failStmt, output, exitCode, traceback>>

\* execute_sql_files, line 52, and the return: the frame drops its reference
\* to the connection, which the interpreter may finalize (and so close) now
\* or later
ExecReturn ==
    /\ pc = "after_with"
    /\ output' = Append(output, Msg("complete", Root))
    /\ \E c \in {"open", "closed"} : conn' = c
    /\ pc' = "main_ret"
    /\ UNCHANGED <<fs, content, db_path_str, paths, idx, sql_files, scanned,
                   mkdirDone, connCount, inTxn, pending, committed, pos,
                   opened, executed, failedAt, failStmt, exitCode, traceback>>

\* main returns, lines 81-84: the process exits with status 0
MainReturn ==
    /\ pc = "main_ret"
    /\ exitCode' = 0
    /\ pc' = "exited"
    /\ UNCHANGED <<fs, content, db_path_str, paths, idx, sql_files, scanned,
                   mkdirDone, conn, connCount, inTxn, pending, committed, pos,
                   opened, executed, failedAt, failStmt, output, traceback>>

\* the exception leaves execute_sql_files and main (no try anywhere): the
\* interpreter prints the traceback and exits with status 1
Unhandled ==
    /\ pc = "propagate"
    /\ traceback' = TRUE
    /\ exitCode' = 1
    /\ pc' = "exited"
    /\ UNCHANGED <<fs, content, db_path_str, paths, idx, sql_files, scanned,
                   mkdirDone, conn, connCount, inTxn, pending, committed, pos,
                   opened, executed, failedAt, failStmt, output>>

Next ==
    \/ ReadConfig
    \/ ConfigMissing
    \/ MakeDbDir
    \/ CollectEnter
    \/ CollectStep
    \/ CollectReturn
    \/ ExecEmpty
    \/ ExecConnect
    \/ ExecOpenFails
    \/ ExecScriptOk
    \/ ExecScriptFails
    \/ ConnExitOk
    \/ ConnExitRaise
    \/ ExecReturn
    \/ MainReturn
    \/ Unhandled

Spec == Init /\ [][Next]_vars

SpecExec == InitExec /\ [][Next]_vars

\* ---------------------------------------------------------------- claims
\* collect_sql_files has returned: sql_files is the Resolved Script List
Returned == scanned /\ pc \notin {"call_collect", "collect"}

\* execute_sql_files has been left, by return or by exception
LeftExecute == pc \in {"propagate", "main_ret"} \/ (pc = "exited" /\ scanned)

Printed(m) == \E i \in DOMAIN output : output[i].msg = m

Count(p, s) == Cardinality({i \in DOMAIN s : s[i] = p})

\* the writes of the script at position p of the list, up to statement last
Writes(p, last) ==
    LET stmts == content[sql_files[p]].stmts
        js == SelectSeq([j \in 1..Len(stmts) |-> j],
                        LAMBDA j : j <= last /\ stmts[j] = "W")
    IN  [i \in 1..Len(js) |-> <<p, js[i]>>]

RECURSIVE WritesUpTo(_)
WritesUpTo(n) ==
    IF n = 0 THEN <<>>
    ELSE WritesUpTo(n - 1) \o Writes(n, Len(content[sql_files[n]].stmts))

NoTxnControl(n) ==
    \A p \in 1..n : \A j \in DOMAIN content[sql_files[p]].stmts :
        content[sql_files[p]].stmts[j] # "BEGIN"

\* C1: when no script of a non-empty list fails, the scripts run on the one
\* connection are the list itself, in list order, each entry once; while the
\* loop runs, what has been run is the list's prefix up to the loop position
C1_ExecutedInListOrder ==
    (Returned /\ pc # "call_exec" /\ sql_files # <<>> /\ failedAt = 0) =>
        /\ connCount = 1
        /\ executed = SubSeq(sql_files, 1, pos)
        /\ opened = [i \in 1..pos |-> i]
        /\ (pc \in {"after_with", "main_ret", "exited"} => executed = sql_files)

C1_Witness ==
    /\ pc = "exited"
    /\ failedAt = 0
    /\ Len(sql_files) >= 3
    /\ executed = sql_files
    /\ sql_files[1] # sql_files[Len(sql_files)]

\* C2: once the script at position k has failed, no later script is opened or
\* run, the failing one is not tried again, the completion report is never
\* printed, and the process ends on the unhandled exception with a status
\* that is not 0
C2_AbortOnFailure ==
    failedAt # 0 =>
        /\ opened = [i \in 1..failedAt |-> i]
        /\ Len(executed) <= failedAt
        /\ ~Printed("complete")
        /\ pc \in {"with_exit", "propagate", "exited"}
        /\ (pc = "exited" => traceback /\ exitCode # 0)

C2_Witness ==
    /\ pc = "exited"
    /\ failedAt >= 2
    /\ failedAt < Len(sql_files)
    /\ traceback

\* C3 as claimed: after a failure at position k the database holds exactly
\* the effects of the scripts before k
C3_ExactlyEarlierEffects ==
    (pc = "exited" /\ failedAt # 0) => committed = WritesUpTo(failedAt - 1)

\* C3 amended: after a failure at position k no later script has an effect
\* and the failing script has none from its failing statement on; when the
\* scripts up to k hold no transaction control, the database holds the
\* effects of the scripts before k followed by the writes of script k that
\* precede its failing statement
C3_EarlierAndPartialEffects ==
    (pc \in {"propagate", "exited"} /\ failedAt # 0) =>
        /\ \A i \in DOMAIN committed :
              \/ committed[i][1] < failedAt
              \/ committed[i][1] = failedAt /\ committed[i][2] < failStmt
        /\ NoTxnControl(failedAt) =>
              committed = WritesUpTo(failedAt - 1) \o Writes(failedAt, failStmt)

C3_Witness ==
    /\ pc = "exited"
    /\ failedAt >= 3
    /\ failedAt < Len(sql_files)
    /\ failStmt >= 2
    /\ NoTxnControl(failedAt)
    /\ \E i \in DOMAIN committed : committed[i][1] = failedAt
    /\ \E i \in DOMAIN committed : committed[i][1] = 1

\* C4 as claimed: whenever execute_sql_files has been left, a connection that
\* was opened is closed
C4_ConnectionClosedOnExit ==
    LeftExecute => conn # "open"

\* C5 as claimed: the returned list ascends by full path string
C5_SortedByPathString ==
    Returned =>
        \A i \in 1..(Len(sql_files) - 1) :
            ~StrLt(PathStr(sql_files[i + 1]), PathStr(sql_files[i]))

\* C5 amended: the returned list ascends in pathlib's order, which compares
\* the paths component by component; a.sql then comes after a/b.sql although
\* its path string is the smaller one
C5_SortedByComponents ==
    Returned =>
        \A i \in 1..(Len(sql_files) - 1) :
            ~PathLt(sql_files[i + 1], sql_files[i])

C5_Witness ==
    /\ pc = "call_exec"
    /\ \E i \in 1..(Len(sql_files) - 1) :
        /\ sql_files[i] = PathABSql
        /\ sql_files[i + 1] = PathASql
        /\ StrLt(PathStr(PathASql), PathStr(PathABSql))

\* the argument lists that are a reordering of ps
Reorderings(ps) ==
    {[i \in DOMAIN ps |-> ps[f[i]]] :
        f \in {g \in [DOMAIN ps -> DOMAIN ps] :
                  \A i, j \in DOMAIN ps : g[i] = g[j] => i = j}}

\* C6: the list that collect_sql_files returns for the arguments, whatever
\* the order the directory walks yield, is the list it returns for every
\* reordering of the arguments
C6_ArgumentOrderIrrelevant ==
    pc = "call_exec" =>
        \A q \in Reorderings(paths) : collect_sql_files(q) = sql_files

C6_Witness ==
    /\ pc = "call_exec"
    /\ Len(paths) >= 2
    /\ Gather(paths) # Gather([i \in DOMAIN paths |-> paths[Len(paths) + 1 - i]])
    /\ collect_sql_files(paths) = sql_files

\* C7: with an empty list no connection is opened, no file is opened, nothing
\* is run or written, the 'no files' message is printed and the process ends
\* with status 0 and no exception
C7_EmptyListIsSuccess ==
    (Returned /\ sql_files = <<>>) =>
        /\ conn = "none"
        /\ connCount = 0
        /\ opened = <<>>
        /\ executed = <<>>
        /\ committed = <<>>
        /\ failedAt = 0
        /\ pc \in {"call_exec", "main_ret", "exited"}
        /\ (pc # "call_exec" => Printed("no_files") /\ ~Printed("connecting"))
        /\ (pc = "exited" => exitCode = 0 /\ ~traceback)

C7_Witness ==
    /\ pc = "exited"
    /\ scanned
    /\ sql_files = <<>>
    /\ exitCode = 0
    /\ Printed("no_files")

\* C8: when SQLITE_DB_PATH is absent or empty the run ends with the error
\* naming the variable and status 1, and never scans the paths, creates the
\* database directory, connects or runs a script
C8_MissingConfigStopsEarly ==
    db_path_str \in {"absent", "empty"} =>
        /\ pc \in {"check", "exited"}
        /\ ~scanned
        /\ ~mkdirDone
        /\ conn = "none"
        /\ connCount = 0
        /\ opened = <<>>
        /\ executed = <<>>
        /\ (pc = "exited" =>
               /\ exitCode = 1
               /\ ~traceback
               /\ output[Len(output)].msg = "err_SQLITE_DB_PATH")

C8_Witness ==
    /\ pc = "exited"
    /\ db_path_str = "empty"
    /\ exitCode = 1
    /\ \E i \in DOMAIN paths : TakesFile(paths[i])

InList(p) == \E i \in DOMAIN sql_files : sql_files[i] = p

\* p is an argument or lies below an argument that is a directory
Covered(p) ==
    \E i \in DOMAIN paths :
        paths[i] = p \/ (IsDir(paths[i]) /\ IsDescendant(p, paths[i]))

EndsInSql(n) == \E k \in 0..Len(n) : SubSeq(n, k + 1, Len(n)) = SqlExt

\* C9 as claimed: the members of the returned list are the regular files
\* with the .sql extension that are an argument or lie below a directory
\* argument
C9_MembersAreCoveredSqlFiles ==
    pc = "call_exec" =>
        \A p \in ArgPaths :
            InList(p) <=> (IsFile(p) /\ Suffix(p) = SqlExt /\ Covered(p))

\* What the two branches of the loop admit instead (C9): the regular files
\* that are an argument with the suffix .sql, or lie below a directory
\* argument and have a name ending in .sql, the name ".sql" included
C9_MembersByArgumentKind ==
    pc = "call_exec" =>
        /\ ~traceback
        /\ \A p \in ArgPaths :
            InList(p) <=>
                /\ IsFile(p)
                /\ \E i \in DOMAIN paths :
                    \/ paths[i] = p /\ Suffix(p) = SqlExt
                    \/ /\ IsDir(paths[i])
                       /\ IsDescendant(p, paths[i])
                       /\ EndsInSql(Name(p))

C9_Witness ==
    /\ pc = "call_exec"
    /\ InList(PathADotSql)
    /\ \E i \in DOMAIN paths : fs[paths[i]] = "none"

\* C10: a path that the arguments taken one by one yield n times in all is n
\* times in the returned list, at adjacent positions, and a run in which no
\* script fails runs it n times
C10_NoDeduplication ==
    Returned =>
        \A p \in ArgPaths :
            /\ Count(p, sql_files) =
                  Cardinality({i \in DOMAIN paths :
                                  Count(p, collect_sql_files(<<paths[i]>>)) = 1})
            /\ \A i \in DOMAIN paths : Count(p, collect_sql_files(<<paths[i]>>)) <= 1
            /\ \A i, j \in DOMAIN sql_files :
                  (i < j /\ sql_files[i] = p /\ sql_files[j] = p) =>
                      \A k \in i..j : sql_files[k] = p
            /\ (pc = "exited" /\ failedAt = 0) =>
                  Count(p, executed) = Count(p, sql_files)

C10_Witness ==
    /\ pc = "exited"
    /\ failedAt = 0
    /\ Len(paths) = 2
    /\ paths[1] # paths[2]
    /\ \E p \in ArgPaths : Count(p, executed) = 2

====
